---------------------------- MODULE Spec2Model ----------------------------
(***************************************************************************)
(* A model of DbService (src/src/index.ts), the Feathers service adapter   *)
(* for ArangoDB: the key mapper (fixKeySend / fixKeyReturn), pagination    *)
(* injection (_injectPagination), result normalisation (_returnMap), the   *)
(* CRUD entry points and the lazy connect() sequence.                      *)
(*                                                                         *)
(* JavaScript values are encoded as strings so that values of different    *)
(* JavaScript types can be compared: JsUndefined, JsNull, JsZero (the      *)
(* number 0) and JsEmptyString are the falsy values the code can meet;     *)
(* every other string stands for a truthy value (a non-empty string).      *)
(* A JavaScript object is a function from field names to values.           *)
(***************************************************************************)
EXTENDS Integers, Sequences, FiniteSets

VARIABLES
  \* ---- the service instance (constructor, lines 105-151)
  _id,          \* this._id: the external identifier field name
  expandData,   \* this.options.expandData
  _paginate,    \* this._paginate: the pagination policy
  \* ---- the key mapper exercised on its own
  mapPc,        \* "input" -> "sent" -> "returned"
  record,       \* the data handed to fixKeySend
  written,      \* fixKeySend's result
  readBack,     \* fixKeyReturn applied to each written record
  \* ---- _injectPagination exercised on its own
  params,       \* the params object handed to _injectPagination
  injected,     \* the params object it returns
  \* ---- the CRUD entry points against one collection
  store,        \* the collection in the database: _key -> document body
  call,         \* the call in flight (its arguments), or NoCall
  before,       \* the collection as the call's query found it
  ret,          \* what the call returned or threw, or NoRet
  \* ---- connect()
  options,      \* this.options: what the constructor was given
  _database,    \* this._database
  _collection,  \* this._collection
  _graph,       \* this._graph
  pc,           \* each caller's position in connect()
  db,           \* each caller's local variable db
  started       \* how often each part of the connect sequence was started

keyVars == <<mapPc, record, written, readBack>>
pageVars == <<params, injected>>
cfgVars == <<_id, expandData, _paginate>>
crudVars == <<store, call, before, ret>>
connVars == <<options, _database, _collection, _graph, pc, db, started>>
vars == <<cfgVars, keyVars, pageVars, crudVars, connVars>>

---------------------------------------------------------------------------
(* JavaScript values *)

JsUndefined == "<undefined>"
JsNull == "<null>"
JsZero == "<0>"
JsEmptyString == ""

\* What `v || other` and `if (v)` take for false.
Falsy == {JsUndefined, JsNull, JsZero, JsEmptyString}
Truthy(v) == v \notin Falsy

\* obj[f]: undefined when the object has no such property.
Prop(obj, f) == IF f \in DOMAIN obj THEN obj[f] ELSE JsUndefined

\* lodash.omit(obj, keys)
Omit(obj, keys) == [f \in DOMAIN obj \ keys |-> obj[f]]

\* { ...a, ...b }: b's properties override a's.
Spread(a, b) ==
  [f \in DOMAIN a \cup DOMAIN b |-> IF f \in DOMAIN b THEN b[f] ELSE a[f]]

\* The object { f: v }.
Obj1(f, v) == [g \in {f} |-> v]

\* The object {}.
EmptyObj == [g \in {} |-> JsUndefined]

---------------------------------------------------------------------------
(* The key mapper *)

\* The fields the database keeps for itself.
InternalFields == {"_id", "_key", "_rev"}

\* The values uuid() can return: truthy, and disjoint from the explicit ids.
Uuids == {"u1", "u2"}

\* A faulty fixKeySend callback: the record's own identifier is ignored.
MutFixKeySendItem_alwaysUuid(item, u) ==
  Spread(Obj1("_key", u), Omit(item, {"_id", "_rev", "_key"}))

\* fixKeySend's callback on one item; u is what uuid() returns if it is called.
FixKeySendItem(item, u) ==
  LET id == IF Truthy(Prop(item, _id)) THEN item[_id] ELSE u
  IN  Spread(Obj1("_key", id), Omit(item, {"_id", "_rev", "_key"}))

\* fixKeySend(data): data is [isArray, items]; a single object is wrapped in a
\* one-element array, an empty array is returned as it is. us[i] is the value
\* uuid() returns for the i-th item.
FixKeySend(data, us) ==
  [i \in 1..Len(data.items) |-> FixKeySendItem(data.items[i], us[i])]

\* fixKeyReturn(item)
FixKeyReturn(item) ==
  LET idObj == Obj1(_id, Prop(item, "_key"))
      removeKeys == {_id, "_key"} \cup (IF expandData THEN {} ELSE {"_id", "_rev"})
  IN  Spread(idObj, Omit(item, removeKeys))


\* What the key mapper is exercised on: records over these fields and values.
KeyFields == {"_id", "id", "_key", "_rev", "name"}
KeyValues == {JsZero, JsEmptyString, "a"}
KeyRecords == UNION {[S -> KeyValues] : S \in SUBSET KeyFields}

\* options.id || "_id" (line 119); "_rev" is refused (lines 116-118).
IdNames == {"_id", "id"}

NoRecords == <<>>

InitKey ==
  /\ _id \in IdNames
  /\ expandData \in BOOLEAN
  /\ mapPc = "input"
  /\ record \in {[isArray |-> FALSE, items |-> <<r>>] : r \in KeyRecords}
                \cup {[isArray |-> TRUE, items |-> <<r>>] : r \in KeyRecords}
                \cup {[isArray |-> TRUE, items |-> <<>>]}
  /\ written = NoRecords
  /\ readBack = NoRecords

\* data = this.fixKeySend(data)
KeySend ==
  /\ mapPc = "input"
  /\ \E u \in Uuids :
       written' = FixKeySend(record, [i \in 1..Len(record.items) |-> u])
  /\ mapPc' = "sent"
  /\ UNCHANGED <<record, readBack, cfgVars, pageVars, crudVars, connVars>>

\* cursor.map(item => this.fixKeyReturn(item)) on what fixKeySend produced
KeyReturn ==
  /\ mapPc = "sent"
  /\ readBack' = [i \in 1..Len(written) |-> FixKeyReturn(written[i])]
  /\ mapPc' = "returned"
  /\ UNCHANGED <<record, written, cfgVars, pageVars, crudVars, connVars>>

---------------------------------------------------------------------------
(* Pagination injection *)

\* An optional number: <<>> when absent (undefined or NaN), <<n>> otherwise.
Absent == <<>>
Num(n) == <<n>>

\* a || b on optional numbers: a unless it is absent or 0.
OrNum(a, b) == IF a # Absent /\ a[1] # 0 THEN a ELSE b

\* Math.min on two numbers.
MathMin(a, b) == IF a <= b THEN a ELSE b

\* lodash.isempty on a Paginate object
IsEmptyPolicy(p) == p.default = Absent /\ p.max = Absent

EmptyPolicy == [default |-> Absent, max |-> Absent]

\* parseInt(v) for the $limit values modelled: a number, a string of digits
\* (with a sign), and undefined, null or any other string, which give NaN.
ParseInt(v) == IF v.k \in {"number", "digits"} THEN Num(v.n) ELSE Absent

\* params.paginate as a Paginate object (read only when params.paginate.k = "policy")
PolicyOf(pg) == [default |-> pg.default, max |-> pg.max]

\* A faulty _injectPagination: the limit is not clamped to the policy.
MutInjectPagination_noClamp(p) ==
  IF IsEmptyPolicy(_paginate) \/ p.paginate.k = "false"
  THEN p
  ELSE LET paginate == IF p.paginate.k = "policy" THEN PolicyOf(p.paginate) ELSE _paginate
           parsed == IF p.hasQuery THEN ParseInt(p.limit) ELSE Absent
           limit == IF parsed = Absent
                    THEN OrNum(paginate.default, OrNum(paginate.max, Num(0)))
                    ELSE parsed
       IN  [p EXCEPT !.hasQuery = TRUE, !.limit = [k |-> "number", n |-> limit[1]]]

\* _injectPagination(params): the params object it returns. params.query.$limit
\* is the field limit; hasQuery tells whether params.query is set.
InjectPagination(p) ==
  IF IsEmptyPolicy(_paginate) \/ p.paginate.k = "false"
  THEN p
  ELSE LET paginate == IF p.paginate.k = "policy" THEN PolicyOf(p.paginate) ELSE _paginate
           parsed == IF p.hasQuery THEN ParseInt(p.limit) ELSE Absent
           limit == IF parsed = Absent
                    THEN OrNum(paginate.default, OrNum(paginate.max, Num(0)))
                    ELSE parsed
           clamped == MathMin(limit[1],
                              OrNum(paginate.max, OrNum(paginate.default, limit))[1])
       IN  [p EXCEPT !.hasQuery = TRUE, !.limit = [k |-> "number", n |-> clamped]]

\* The largest limit a policy holds; requested limits run one past it.
MaxLimit == 2

OptNums == {Absent} \cup {Num(n) : n \in -1..MaxLimit}
Policies == [default : OptNums, max : OptNums]

LimitUndefined == [k |-> "undefined", n |-> 0]
LimitValues ==
  {LimitUndefined, [k |-> "null", n |-> 0], [k |-> "junk", n |-> 0]}
  \cup [k : {"number", "digits"}, n : -1..(MaxLimit + 1)]

PaginateAbsent == [k |-> "absent", default |-> Absent, max |-> Absent]
PaginateFalse == [k |-> "false", default |-> Absent, max |-> Absent]
PaginateValues ==
  {PaginateAbsent, PaginateFalse} \cup [k : {"policy"}, default : OptNums, max : OptNums]

\* The params objects of a call: a params without a query carries no $limit.
ParamsValues ==
  [paginate : PaginateValues, hasQuery : {TRUE}, limit : LimitValues]
  \cup [paginate : PaginateValues, hasQuery : {FALSE}, limit : {LimitUndefined}]

NoParams == [paginate |-> PaginateAbsent, hasQuery |-> FALSE, limit |-> [k |-> "none", n |-> 0]]

InitPage ==
  /\ _paginate \in Policies
  /\ params \in ParamsValues
  /\ injected = NoParams

\* set paginate(option): this._paginate = option || this._paginate
SetPaginate ==
  /\ injected = NoParams
  /\ \E option \in Policies : _paginate' = option
  /\ UNCHANGED <<_id, expandData, params, injected, keyVars, crudVars, connVars>>

\* params = this._injectPagination(params)
Inject ==
  /\ injected = NoParams
  /\ injected' = InjectPagination(params)
  /\ UNCHANGED <<params, cfgVars, keyVars, crudVars, connVars>>

---------------------------------------------------------------------------
(* The database collaborator, as the code uses it *)

\* The errorNum _returnMap tells from all others: the document a REPLACE, UPDATE
\* or REMOVE names does not exist.
ErrDocumentNotFound == 1202
\* Some other errorNum (a key already in use, a value that is no document key).
ErrOther == ErrDocumentNotFound + 1

\* The order a scan of the collection yields its documents in.
KeyOrder == <<"a", "b", "u1", "u2">>

\* A stored document as a query returns it: the body and the system attributes.
DocHandle(k) == "c/" \o k
DbRow(s, k) ==
  Spread(s[k], [f \in InternalFields |->
                  CASE f = "_key" -> k [] f = "_id" -> DocHandle(k) [] OTHER -> "rev"])

\* What a query gives: err is 0 or the errorNum it failed with; rows what it
\* returned; fullCount the matching rows before LIMIT; after the collection it
\* leaves; touched the keys it wrote or removed. A failed query changes nothing
\* (the query is one transaction); missing is the id it found no document for.
QueryFailed(s0, errorNum, id) ==
  [err |-> errorNum, rows |-> <<>>, fullCount |-> 0, after |-> s0, touched |-> {},
   missing |-> id]
QueryDone(s, rows, n, done) ==
  [err |-> 0, rows |-> rows, fullCount |-> n, after |-> s, touched |-> done,
   missing |-> JsUndefined]

\* The errorNum of a REPLACE, UPDATE or REMOVE of id when no document has that
\* key: 1202 for a key, and for a value that cannot be a key either that or
\* another code.
MissingErrors(id) ==
  IF id \in Falsy THEN {ErrDocumentNotFound, ErrOther} ELSE {ErrDocumentNotFound}

\* REPLACE doc WITH data / UPDATE doc WITH data on one body
Modified(fOpt, body, data) == IF fOpt = "REPLACE" THEN data ELSE Spread(body, data)

\* FOR doc IN @ids  <fOpt> doc WITH @data IN @@coll  LET changed = NEW  RETURN changed
\* (s0: the collection before the query; s: as the rows so far left it)
RECURSIVE ModifyByIds(_, _, _, _, _, _, _, _)
ModifyByIds(s0, s, fOpt, ids, data, i, rows, done) ==
  IF i > Len(ids) THEN QueryDone(s, rows, Len(rows), done)
  ELSE IF ids[i] \notin DOMAIN s THEN QueryFailed(s0, ErrDocumentNotFound, ids[i])
  ELSE LET s2 == [s EXCEPT ![ids[i]] = Modified(fOpt, s[ids[i]], data)]
       IN  ModifyByIds(s0, s2, fOpt, ids, data, i + 1,
                       Append(rows, DbRow(s2, ids[i])), done \cup {ids[i]})

\* FOR doc IN @@coll  <filter>  <fOpt> doc WITH @data IN @@coll  LET changed = NEW  RETURN changed
ModifyByFilter(s, fOpt, keys, data) ==
  LET hit == {keys[i] : i \in 1..Len(keys)}
      s2 == [k \in DOMAIN s |-> IF k \in hit THEN Modified(fOpt, s[k], data) ELSE s[k]]
  IN  QueryDone(s2, [i \in 1..Len(keys) |-> DbRow(s2, keys[i])], Len(keys), hit)

\* FOR doc IN @ids  REMOVE doc IN @@coll  LET removed = OLD  RETURN removed
RECURSIVE RemoveByIds(_, _, _, _, _, _)
RemoveByIds(s0, s, ids, i, rows, done) ==
  IF i > Len(ids) THEN QueryDone(s, rows, Len(rows), done)
  ELSE IF ids[i] \notin DOMAIN s THEN QueryFailed(s0, ErrDocumentNotFound, ids[i])
  ELSE RemoveByIds(s0, [k \in DOMAIN s \ {ids[i]} |-> s[k]], ids, i + 1,
                   Append(rows, DbRow(s, ids[i])), done \cup {ids[i]})

\* FOR doc IN @@coll  <filter>  REMOVE doc IN @@coll  LET removed = OLD  RETURN removed
RemoveByFilter(s, keys) ==
  LET hit == {keys[i] : i \in 1..Len(keys)}
  IN  QueryDone([k \in DOMAIN s \ hit |-> s[k]],
                [i \in 1..Len(keys) |-> DbRow(s, keys[i])], Len(keys), hit)

\* FOR item IN @data  INSERT item IN @@coll  LET doc = NEW  RETURN doc
\* (a key already in use fails the query)
RECURSIVE InsertAll(_, _, _, _, _, _)
InsertAll(s0, s, items, i, rows, done) ==
  IF i > Len(items) THEN QueryDone(s, rows, Len(rows), done)
  ELSE LET k == items[i]["_key"] IN
       IF k \in DOMAIN s THEN QueryFailed(s0, ErrOther, k)
       ELSE LET s2 == [j \in DOMAIN s \cup {k} |->
                         IF j = k THEN Omit(items[i], InternalFields) ELSE s[j]]
            IN  InsertAll(s0, s2, items, i + 1, Append(rows, DbRow(s2, k)),
                          done \cup {k})

---------------------------------------------------------------------------
(* The query builder (queryBuilder.ts), as far as the service relies on it *)

\* queryBuilder.filter: every field of the query but the $-directives must
\* equal the value given; no field, no filtering.
Matches(body, filter) == \A f \in DOMAIN filter : Prop(body, f) = filter[f]

\* The keys a scan with the filter yields, in scan order.
ScanKeys(s, filter) ==
  SelectSeq(KeyOrder, LAMBDA k : k \in DOMAIN s /\ Matches(s[k], filter))

\* queryBuilder.limit: LIMIT $skip, $limit when params.query.$limit is a
\* positive number; no clause otherwise. $skip is not modelled (0).
LimitRows(rows, p) ==
  IF p.hasQuery /\ p.limit.k \in {"number", "digits"} /\ p.limit.n > 0
     /\ p.limit.n < Len(rows)
  THEN SubSeq(rows, 1, p.limit.n)
  ELSE rows

---------------------------------------------------------------------------
(* Result normalisation *)

\* An id argument: a single value or an array of values.
NoId == [isArray |-> FALSE, items |-> <<>>]

NoRet ==
  [kind |-> "none", value |-> <<>>, total |-> 0, limit |-> 0, skip |-> 0,
   errorNum |-> 0, message |-> NoId, mapped |-> <<>>, removeArray |-> FALSE,
   paging |-> FALSE, touched |-> {}]

\* throw new NotFound(errorMessage); the message is built from the id argument.
NotFound(message) == [NoRet EXCEPT !.kind = "NotFound", !.message = message]

\* A faulty result[0]: an empty result is handed back as the empty array.
MutFirst_emptyArray(result) == [kind |-> "list", value |-> <<>>]

\* result[0]: undefined for an empty array
First(result) ==
  IF Len(result) = 0 THEN [kind |-> "undefined", value |-> <<>>]
  ELSE [kind |-> "single", value |-> <<result[1]>>]

\* _returnMap(database, query, errorMessage, removeArray, paging) on what the
\* query gave; hasMessage tells whether errorMessage was passed.
ReturnMap(q, hasMessage, message, removeArray, paging) ==
  IF q.err # 0
  THEN IF q.err = ErrDocumentNotFound /\ hasMessage
       THEN NotFound(message)
       ELSE [NoRet EXCEPT !.kind = "ArangoError", !.errorNum = q.err]
  ELSE LET result == [i \in 1..Len(q.rows) |-> FixKeyReturn(q.rows[i])]
           shaped == IF Len(result) > 1 \/ ~removeArray
                     THEN [kind |-> "list", value |-> result]
                     ELSE First(result)
       IN  IF Len(result) = 0 /\ hasMessage THEN NotFound(message)
           ELSE IF paging
           THEN [NoRet EXCEPT !.kind = "paged", !.total = q.fullCount, !.value = result,
                              !.mapped = result, !.removeArray = removeArray,
                              !.paging = TRUE, !.touched = q.touched]
           ELSE [NoRet EXCEPT !.kind = shaped.kind, !.value = shaped.value,
                              !.mapped = result, !.removeArray = removeArray,
                              !.touched = q.touched]

---------------------------------------------------------------------------
(* The CRUD entry points *)

\* The ids a call may name: null, the falsy ids 0 and "", two keys and a key no
\* document has. Arrays of ids hold at most MaxIds values.
MaxIds == 2
IdScalars == {JsNull, JsZero, JsEmptyString, "a", "b", "zz"}
IdListValues == {JsNull, JsZero, "a", "zz"}
IdArgs ==
  {[isArray |-> FALSE, items |-> <<v>>] : v \in IdScalars}
  \cup {[isArray |-> TRUE, items |-> l] :
          l \in UNION {[1..n -> IdListValues] : n \in 0..MaxIds}}

\* Document bodies, the ambient filters and the data of an update or patch.
Bodies == {Obj1("grp", "x"), Obj1("grp", "y"), EmptyObj}
Filters == {EmptyObj, Obj1("grp", "x")}
UpdateData == {Obj1("grp", "y"), EmptyObj}

\* What create is handed: a single record or an array of at most MaxBatch.
MaxBatch == 2
CreateItems ==
  {Obj1("grp", "x"),
   Spread(Obj1("_id", "a"), Obj1("grp", "x")),
   Spread(Obj1("_id", "b"), Obj1("grp", "y")),
   Spread(Obj1("_id", JsZero), Obj1("grp", "y"))}
CreateData ==
  {[isArray |-> FALSE, items |-> <<r>>] : r \in CreateItems}
  \cup {[isArray |-> TRUE, items |-> l] :
          l \in UNION {[1..n -> CreateItems] : n \in 0..MaxBatch}}

\* The collection holds at most MaxDocs documents.
MaxDocs == 2

\* The params of a call that only carries the ambient filter.
FilterParams(filter) ==
  [paginate |-> PaginateAbsent, hasQuery |-> TRUE, limit |-> LimitUndefined,
   filter |-> filter]
\* The params of a find.
FindParams ==
  [paginate : {PaginateAbsent, PaginateFalse}, hasQuery : {TRUE},
   limit : {LimitUndefined, [k |-> "number", n |-> 1]}, filter : Filters]
  \cup [paginate : {PaginateAbsent, PaginateFalse}, hasQuery : {FALSE},
        limit : {LimitUndefined}, filter : {EmptyObj}]

NoData == [isArray |-> FALSE, items |-> <<>>]
NoCall == [op |-> "none", id |-> NoId, data |-> NoData, params |-> FilterParams(EmptyObj)]

Idle == call = NoCall
Pending(op) == call.op = op /\ ret = NoRet

\* `${id}` in the not-found message: the id argument as given.
ErrorMessage(id) == id

\* The call is made: its arguments are bound and it awaits this.connect().
CallFind ==
  /\ Idle
  /\ \E p \in FindParams : call' = [NoCall EXCEPT !.op = "find", !.params = p]
  /\ UNCHANGED <<store, before, ret, cfgVars, keyVars, pageVars, connVars>>

CallGet ==
  /\ Idle
  /\ \E v \in IdScalars \ {JsNull}, f \in Filters :
       call' = [NoCall EXCEPT !.op = "get", !.id = [isArray |-> FALSE, items |-> <<v>>],
                              !.params = FilterParams(f)]
  /\ UNCHANGED <<store, before, ret, cfgVars, keyVars, pageVars, connVars>>

\* create maps the data for writing before it awaits the connection (line 359).
CallCreate ==
  /\ Idle
  /\ \E raw \in CreateData :
       /\ Cardinality(DOMAIN store) + Len(raw.items) <= MaxDocs
       /\ \E us \in [1..Len(raw.items) -> Uuids \ DOMAIN store] :
            /\ \A i, j \in 1..Len(raw.items) : i # j => us[i] # us[j]
            /\ call' = [NoCall EXCEPT !.op = "create",
                          !.data = [isArray |-> raw.isArray, items |-> FixKeySend(raw, us)]]
  /\ UNCHANGED <<store, before, ret, cfgVars, keyVars, pageVars, connVars>>

CallUpdate ==
  /\ Idle
  /\ \E id \in IdArgs, d \in UpdateData, f \in Filters :
       call' = [NoCall EXCEPT !.op = "update", !.id = id,
                              !.data = [isArray |-> FALSE, items |-> <<d>>],
                              !.params = FilterParams(f)]
  /\ UNCHANGED <<store, before, ret, cfgVars, keyVars, pageVars, connVars>>

CallPatch ==
  /\ Idle
  /\ \E id \in IdArgs, d \in UpdateData, f \in Filters :
       call' = [NoCall EXCEPT !.op = "patch", !.id = id,
                              !.data = [isArray |-> FALSE, items |-> <<d>>],
                              !.params = FilterParams(f)]
  /\ UNCHANGED <<store, before, ret, cfgVars, keyVars, pageVars, connVars>>

CallRemove ==
  /\ Idle
  /\ \E id \in IdArgs, f \in Filters :
       call' = [NoCall EXCEPT !.op = "remove", !.id = id, !.params = FilterParams(f)]
  /\ UNCHANGED <<store, before, ret, cfgVars, keyVars, pageVars, connVars>>

\* find(params), from the connection's resolution on
Find ==
  /\ Pending("find")
  /\ LET p == InjectPagination(call.params)
         keys == ScanKeys(store, p.filter)
         all == [i \in 1..Len(keys) |-> DbRow(store, keys[i])]
         q == QueryDone(store, LimitRows(all, p), Len(all), {})
         paging == ~IsEmptyPolicy(_paginate)
         result == ReturnMap(q, FALSE, NoId, FALSE, paging)
     IN  ret' = IF paging
                THEN IF ~p.hasQuery
                     THEN [NoRet EXCEPT !.kind = "TypeError"]
                     ELSE [result EXCEPT !.kind = "envelope",
                              !.limit = IF p.limit.k \in {"number", "digits"}
                                        THEN p.limit.n ELSE 0,
                              !.skip = 0]
                ELSE result
  /\ before' = store
  /\ UNCHANGED <<store, call, cfgVars, keyVars, pageVars, connVars>>

\* get(id, params)
Get ==
  /\ Pending("get")
  /\ LET id == call.id.items[1]
         keys == SelectSeq(ScanKeys(store, call.params.filter), LAMBDA k : k = id)
         rows == [i \in 1..Len(keys) |-> DbRow(store, keys[i])]
         q == QueryDone(store, rows, Len(rows), {})
     IN  ret' = ReturnMap(q, TRUE, ErrorMessage(call.id), TRUE, FALSE)
  /\ before' = store
  /\ UNCHANGED <<store, call, cfgVars, keyVars, pageVars, connVars>>

\* create(data, params), from the connection's resolution on
Create ==
  /\ Pending("create")
  /\ LET q == InsertAll(store, store, call.data.items, 1, <<>>, {})
     IN  /\ ret' = ReturnMap(q, FALSE, NoId, TRUE, FALSE)
         /\ store' = q.after
  /\ before' = store
  /\ UNCHANGED <<call, cfgVars, keyVars, pageVars, connVars>>

\* The query _replaceOrPatch builds and what the database makes of it.
ReplaceOrPatchQuery(fOpt, id, data, filter) ==
  LET ids == id.items
  IN  IF Len(ids) > 0 /\ ids[1] \notin {JsNull, JsUndefined}
      THEN ModifyByIds(store, store, fOpt, ids, data, 1, <<>>, {})
      ELSE ModifyByFilter(store, fOpt, ScanKeys(store, filter), data)

\* _replaceOrPatch(fOpt, id, data, params)
ReplaceOrPatch(fOpt) ==
  LET q0 == ReplaceOrPatchQuery(fOpt, call.id, call.data.items[1], call.params.filter)
  IN  /\ \E e \in (IF q0.err = 0 THEN {0} ELSE MissingErrors(q0.missing)) :
           ret' = ReturnMap([q0 EXCEPT !.err = e], TRUE, ErrorMessage(call.id), TRUE, FALSE)
      /\ store' = q0.after
      /\ before' = store
      /\ UNCHANGED <<call, cfgVars, keyVars, pageVars, connVars>>

\* update(id, data, params)
Update == Pending("update") /\ ReplaceOrPatch("REPLACE")

\* patch(id, data, params)
Patch == Pending("patch") /\ ReplaceOrPatch("UPDATE")

\* The query remove builds and what the database makes of it.
RemoveQuery(id, filter) ==
  IF (IF id.isArray THEN Len(id.items) > 0 ELSE Truthy(id.items[1]))
  THEN RemoveByIds(store, store, id.items, 1, <<>>, {})
  ELSE RemoveByFilter(store, ScanKeys(store, filter))

\* remove(id, params)
Remove ==
  /\ Pending("remove")
  /\ LET q0 == RemoveQuery(call.id, call.params.filter)
     IN  /\ \E e \in (IF q0.err = 0 THEN {0} ELSE MissingErrors(q0.missing)) :
              ret' = ReturnMap([q0 EXCEPT !.err = e], FALSE, NoId, TRUE, FALSE)
         /\ store' = q0.after
  /\ before' = store
  /\ UNCHANGED <<call, cfgVars, keyVars, pageVars, connVars>>

\* The caller has the result; the next call can be made.
Return ==
  /\ ret # NoRet
  /\ call' = NoCall
  /\ ret' = NoRet
  /\ before' = store
  /\ UNCHANGED <<store, cfgVars, keyVars, pageVars, connVars>>

\* The pagination policies the CRUD calls are run under.
CrudPolicies == {EmptyPolicy, [default |-> Num(1), max |-> Num(2)]}

InitCrud ==
  /\ _id = "_id"
  /\ expandData = FALSE
  /\ _paginate \in CrudPolicies
  /\ store \in UNION {[S -> Bodies] : S \in SUBSET {"a", "b"}}
  /\ before = store
  /\ call = NoCall
  /\ ret = NoRet

---------------------------------------------------------------------------
(* connect() *)

\* The callers whose connect() calls may overlap.
MaxCallers == 2
Callers == 1..MaxCallers

\* A database, graph or collection handle: undefined, the one the constructor
\* was given (or its promise resolves to), or the one a caller's connect made.
\* auto: whether it is an AutoDatabse.
NoHandle == [kind |-> "undefined", by |-> 0, auto |-> FALSE]
GivenHandle(auto) == [kind |-> "given", by |-> 0, auto |-> auto]
MadeHandle(c) == [kind |-> "made", by |-> c, auto |-> TRUE]

\* What the constructor may be given (lines 63-80): the database by name, as a
\* promise (of an AutoDatabse or of a plain Database) or as an AutoDatabse;
\* the graph not at all, as options, as a Graph or as a promise; the
\* collection by name, as a promise or as a handle.
OptionValues ==
  [database : {"name", "promise", "instance"}, promiseGivesAuto : BOOLEAN,
   authType : {"none", "BASIC_AUTH", "BEARER_AUTH"},
   graph : {"none", "options", "instance", "promise"},
   collection : {"name", "promise", "instance"}]

\* The constructor (lines 123-150), for the handles it stores.
InitConnect ==
  /\ options \in {o \in OptionValues :
                    /\ o.database # "promise" => o.promiseGivesAuto
                    /\ o.database # "name" => o.authType = "none"}
  /\ _database = IF options.database = "instance" THEN GivenHandle(TRUE) ELSE NoHandle
  /\ _graph = IF options.graph = "instance" THEN GivenHandle(FALSE) ELSE NoHandle
  /\ _collection = IF options.collection = "instance" THEN GivenHandle(FALSE) ELSE NoHandle
  /\ pc = [c \in Callers |-> "idle"]
  /\ db = [c \in Callers |-> NoHandle]
  /\ started = [database |-> 0, graph |-> 0, collection |-> 0]

\* (db.useBasicAuth is synchronous; useBearerAuth and login are both awaited,
\* so options.token does not change the positions and is left out.)

\* The service's handles and one caller's position, as one run of connect()
\* between two awaits reads and writes them.
Here(c) ==
  [database |-> _database, graph |-> _graph, collection |-> _collection,
   db |-> db[c], started |-> started, pc |-> pc[c]]

\* Lines 196-208: the collection is made if there is none, or the call returns.
From196(c, h) ==
  IF h.collection = NoHandle
  THEN IF h.database.auto
       THEN [h EXCEPT !.pc = "awaitAutoCollection",
                      !.started.collection = h.started.collection + 1]
       ELSE [h EXCEPT !.pc = "failed"]
  ELSE [h EXCEPT !.pc = "connected"]

\* Lines 192-194
From192(c, h) ==
  IF options.collection = "promise"
  THEN [h EXCEPT !.pc = "awaitCollectionPromise"]
  ELSE From196(c, h)

\* Lines 182-189
From182(c, h) ==
  IF options.graph # "none" /\ h.graph = NoHandle
  THEN IF h.database.auto
       THEN [h EXCEPT !.pc = "awaitAutoGraph", !.started.graph = h.started.graph + 1]
       ELSE [h EXCEPT !.pc = "failed"]
  ELSE From192(c, h)

\* Lines 178-180
From178(c, h) ==
  IF h.graph = NoHandle /\ options.graph = "promise"
  THEN [h EXCEPT !.pc = "awaitGraphPromise"]
  ELSE From182(c, h)

\* Lines 159-176: with no database yet, a handle is created and authenticated.
From159(c, h) ==
  IF h.database = NoHandle
  THEN [h EXCEPT !.db = MadeHandle(c),
                 !.started.database = h.started.database + 1,
                 !.pc = IF options.authType = "BEARER_AUTH"
                        THEN "awaitAuth" ELSE "awaitUseDatabase"]
  ELSE From178(c, h)

\* Lines 154-157
From155(c, h) ==
  IF h.database = NoHandle /\ options.database = "promise"
  THEN [h EXCEPT !.pc = "awaitDatabasePromise"]
  ELSE From159(c, h)

\* The run ends at an await, a throw or the return: its writes take effect.
Ends(c, h) ==
  /\ _database' = h.database
  /\ _graph' = h.graph
  /\ _collection' = h.collection
  /\ db' = [db EXCEPT ![c] = h.db]
  /\ started' = h.started
  /\ pc' = [pc EXCEPT ![c] = h.pc]
  /\ UNCHANGED <<options, cfgVars, keyVars, pageVars, crudVars>>

\* A caller calls connect(): it runs to its first await.
Connect(c) ==
  /\ pc[c] = "idle"
  /\ Ends(c, From155(c, Here(c)))

\* this._database = await this._databasePromise
DatabasePromiseResolved(c) ==
  /\ pc[c] = "awaitDatabasePromise"
  /\ Ends(c, From159(c, [Here(c) EXCEPT !.database = GivenHandle(options.promiseGivesAuto)]))

\* await db.useBearerAuth(token) / await db.login(username, password)
Authenticated(c) ==
  /\ pc[c] = "awaitAuth"
  /\ Ends(c, [Here(c) EXCEPT !.pc = "awaitUseDatabase"])

\* await db.autoUseDatabase(name); this._database = db
DatabaseSelected(c) ==
  /\ pc[c] = "awaitUseDatabase"
  /\ Ends(c, From178(c, [Here(c) EXCEPT !.database = db[c]]))

\* this._graph = await this._graphPromise
GraphPromiseResolved(c) ==
  /\ pc[c] = "awaitGraphPromise"
  /\ Ends(c, From182(c, [Here(c) EXCEPT !.graph = GivenHandle(FALSE)]))

\* this._graph = await this._database.autoGraph(properties, opts)
GraphMade(c) ==
  /\ pc[c] = "awaitAutoGraph"
  /\ Ends(c, From192(c, [Here(c) EXCEPT !.graph = MadeHandle(c)]))

\* this._collection = await this._collectionPromise
CollectionPromiseResolved(c) ==
  /\ pc[c] = "awaitCollectionPromise"
  /\ Ends(c, From196(c, [Here(c) EXCEPT !.collection = GivenHandle(FALSE)]))

\* this._collection = await this._database.autoCollection(name); return
CollectionMade(c) ==
  /\ pc[c] = "awaitAutoCollection"
  /\ Ends(c, [Here(c) EXCEPT !.collection = MadeHandle(c), !.pc = "connected"])

\* The caller has connect()'s result or its exception, and may call again.
Leave(c) ==
  /\ pc[c] \in {"connected", "failed"}
  /\ Ends(c, [Here(c) EXCEPT !.pc = "idle", !.db = NoHandle])

---------------------------------------------------------------------------
(* Specifications *)

\* The service's configuration where a specification does not exercise it.
IdleCfg == _id = "_id" /\ expandData = FALSE /\ _paginate = EmptyPolicy
IdleKey == mapPc = "idle" /\ record = NoRecords /\ written = NoRecords /\ readBack = NoRecords
IdlePage == params = NoParams /\ injected = NoParams

IdleCrud == store = EmptyObj /\ before = EmptyObj /\ call = NoCall /\ ret = NoRet
IdleConn ==
  /\ options = EmptyObj /\ _database = NoHandle /\ _collection = NoHandle
  /\ _graph = NoHandle /\ pc = <<>> /\ db = <<>> /\ started = EmptyObj

InitKeySpec == InitKey /\ _paginate = EmptyPolicy /\ IdlePage /\ IdleCrud /\ IdleConn
NextKey == KeySend \/ KeyReturn
SpecKey == InitKeySpec /\ [][NextKey]_vars

InitPageSpec ==
  InitPage /\ _id = "_id" /\ expandData = FALSE /\ IdleKey /\ IdleCrud /\ IdleConn
NextPage == SetPaginate \/ Inject
SpecPage == InitPageSpec /\ [][NextPage]_vars

InitCrudSpec == InitCrud /\ IdleKey /\ IdlePage /\ IdleConn
NextCrud ==
  \/ CallFind \/ CallGet \/ CallCreate \/ CallUpdate \/ CallPatch \/ CallRemove
  \/ Find \/ Get \/ Create \/ Update \/ Patch \/ Remove
  \/ Return
SpecCrud == InitCrudSpec /\ [][NextCrud]_vars

InitConnectSpec == InitConnect /\ IdleCfg /\ IdleKey /\ IdlePage /\ IdleCrud
NextConnect ==
  \E c \in Callers :
    \/ Connect(c) \/ DatabasePromiseResolved(c) \/ Authenticated(c)
    \/ DatabaseSelected(c) \/ GraphPromiseResolved(c) \/ GraphMade(c)
    \/ CollectionPromiseResolved(c) \/ CollectionMade(c) \/ Leave(c)
SpecConnect == InitConnectSpec /\ [][NextConnect]_vars

---------------------------------------------------------------------------
(* Claims about the CRUD entry points (checked under SpecCrud) *)

\* The call named has run: ret is what it returned or threw, before the
\* collection as its query found it, store the collection as it left it.
Done(op) == call.op = op /\ ret # NoRet

Failures == {"NotFound", "ArangoError", "TypeError"}

\* The keys of the documents of s that the filter matches.
MatchingKeys(s, filter) == {k \in DOMAIN s : Matches(s[k], filter)}

\* The ids of an id argument that are not null.
NonNullIds(id) == {id.items[i] : i \in 1..Len(id.items)} \ {JsNull}

\* No id is supplied: null, or an empty list.
NoIdSupplied(id) == IF id.isArray THEN Len(id.items) = 0 ELSE id.items[1] = JsNull

\* Ids are supplied: a value of the Id type, or a non-empty list of them.
IdsSupplied(id) == Len(id.items) > 0 /\ \A i \in 1..Len(id.items) : id.items[i] # JsNull

\* The documents a call removed.
Deleted == DOMAIN before \ DOMAIN store

\* C2: on a service with a non-empty pagination policy, a find whose params
\* carry paginate: false returns the bare list of documents, not an envelope.
C2_PaginateFalseGivesBareList ==
  (Done("find") /\ ~IsEmptyPolicy(_paginate) /\ call.params.paginate.k = "false")
    => ret.kind = "list"

\* C4: remove with ids supplied deletes documents with those ids only (all of
\* them when it succeeds) and changes no other document; with no id supplied
\* it deletes every document the ambient filter matches.
C4_RemoveDeletesExactlyTheIds ==
  Done("remove") =>
    /\ IdsSupplied(call.id) =>
         /\ Deleted \subseteq NonNullIds(call.id)
         /\ \A k \in DOMAIN store : k \in DOMAIN before /\ store[k] = before[k]
         /\ ret.kind \notin Failures => Deleted = NonNullIds(call.id)
    /\ NoIdSupplied(call.id) => Deleted = MatchingKeys(before, call.params.filter)

\* C5: update and patch with one or more non-null ids supplied, as a single id
\* or anywhere in a list, touch only documents whose key is one of those ids;
\* with no id supplied they are applied to every document the ambient filter
\* matches.
C5_ModifyTouchesOnlyTheIds ==
  (Done("update") \/ Done("patch")) =>
    IF NonNullIds(call.id) # {}
    THEN /\ ret.touched \subseteq NonNullIds(call.id)
         /\ \A k \in DOMAIN before \ NonNullIds(call.id) :
              k \in DOMAIN store /\ store[k] = before[k]
    ELSE ret.touched = MatchingKeys(before, call.params.filter)

\* The documents a get, update or patch is aimed at: those with the ids given
\* (for get, which the filter matches as well), or with no id those the
\* ambient filter matches.
Targets ==
  IF call.op = "get"
  THEN NonNullIds(call.id) \cap MatchingKeys(before, call.params.filter)
  ELSE IF NonNullIds(call.id) # {}
       THEN NonNullIds(call.id) \cap DOMAIN before
       ELSE MatchingKeys(before, call.params.filter)

\* C6: get, update and patch raise Not-Found exactly when they target no
\* document, and get's message carries the requested id. (Stated for ids that
\* are null or can be document keys, for id lists that hold a null only when
\* they start with one, and whose ids either all name a document or none
\* does.)
C6_NotFoundIffNoTarget ==
  ( /\ Done("get") \/ Done("update") \/ Done("patch")
    /\ \A v \in NonNullIds(call.id) : Truthy(v)
    /\ \/ Len(call.id.items) = 0
       \/ call.id.items[1] = JsNull
       \/ \A i \in 1..Len(call.id.items) : call.id.items[i] # JsNull
    /\ \/ NonNullIds(call.id) \subseteq DOMAIN before
       \/ NonNullIds(call.id) \cap DOMAIN before = {} )
  => /\ ret.kind = "NotFound" <=> Targets = {}
     /\ (call.op = "get" /\ ret.kind = "NotFound") => ret.message = call.id

\* C7: remove of an id that no document has never raises Not-Found, leaves
\* the collection unchanged and, when it returns, returns undefined or an
\* empty list.
C7_RemoveMissingIdIsQuiet ==
  ( /\ Done("remove")
    /\ ~call.id.isArray
    /\ call.id.items[1] # JsNull
    /\ call.id.items[1] \notin DOMAIN before )
  => /\ ret.kind # "NotFound"
     /\ store = before
     /\ ret.kind \notin Failures =>
          (ret.kind = "undefined" \/ (ret.kind = "list" /\ ret.value = <<>>))

\* _returnMap has returned (not thrown) with paging off.
ReturnedUnpaged == ret # NoRet /\ ret.kind \notin Failures /\ ~ret.paging

\* C10 as stated: _returnMap with paginate false returns the unwrapped element
\* when there is exactly one result and collapsing is enabled, and the bare
\* sequence otherwise, an empty result included.
C10_Original_EmptyGivesEmptySequence ==
  ReturnedUnpaged =>
    IF Len(ret.mapped) = 1 /\ ret.removeArray
    THEN ret.kind = "single" /\ ret.value = ret.mapped
    ELSE ret.kind = "list" /\ ret.value = ret.mapped

\* C10 (amended): _returnMap with paginate false returns the bare sequence when
\* there are several results or collapsing is off, the unwrapped element when
\* there is exactly one result and collapsing is on, and undefined when there
\* is no result and collapsing is on.
C10_ReturnShape ==
  ReturnedUnpaged =>
    CASE Len(ret.mapped) > 1 \/ ~ret.removeArray ->
           ret.kind = "list" /\ ret.value = ret.mapped
      [] Len(ret.mapped) = 1 /\ ret.removeArray ->
           ret.kind = "single" /\ ret.value = ret.mapped
      [] OTHER -> ret.kind = "undefined"

\* C10 witness: a remove that matched nothing has returned undefined, and
\* collapsing was on.
C10_Witness ==
  Done("remove") /\ ReturnedUnpaged /\ ret.removeArray /\ Len(ret.mapped) = 0
  /\ ret.kind = "undefined"

(* Claims about connect() (checked under SpecConnect) *)

\* C1: however many connect() calls of one instance overlap, the connect
\* sequence (create the database handle, authenticate, select the database,
\* resolve the collection) is started at most once.
C1_ConnectStartedAtMostOnce ==
  started.database <= 1 /\ started.graph <= 1 /\ started.collection <= 1

---------------------------------------------------------------------------
(* Claims about _injectPagination (checked under SpecPage) *)

\* _injectPagination has run and has written params.query.$limit.
WroteLimit ==
  injected # NoParams /\ ~IsEmptyPolicy(_paginate) /\ params.paginate.k # "false"

\* The policy in force for the call, and the limit the call asked for.
PolicyInForce ==
  IF params.paginate.k = "policy" THEN PolicyOf(params.paginate) ELSE _paginate
RequestedLimit == IF params.hasQuery THEN ParseInt(params.limit) ELSE Absent

\* The least number of a non-empty set of numbers.
Least(S) == CHOOSE m \in S : \A x \in S : m <= x

\* C3 as stated: the effective limit equals min(L or default, max or default
\* or L) and is never negative, for every requested limit L (absent, zero and
\* negative ones included); stated here for the policies that set a positive
\* default and a positive max.
C3_Original_ClampedAndNeverNegative ==
  ( /\ WroteLimit
    /\ PolicyInForce.default # Absent /\ PolicyInForce.max # Absent
    /\ PolicyInForce.default[1] > 0 /\ PolicyInForce.max[1] > 0 )
  => LET L == RequestedLimit
         LorDefault == IF L # Absent THEN L ELSE PolicyInForce.default
         cap == OrNum(PolicyInForce.max, OrNum(PolicyInForce.default, L))
     IN  /\ injected.limit.n >= 0
         /\ injected.limit.n = Least({LorDefault[1], cap[1]})

\* C3 (amended): the limit written is min(B, max or default or B), where B is
\* L when L parses as an integer and default or max or 0 otherwise; it is not
\* negative when L is absent or not negative and neither default nor max is
\* negative.
C3_EffectiveLimit ==
  WroteLimit =>
    LET L == RequestedLimit
        d == PolicyInForce.default
        m == PolicyInForce.max
        Set(x) == x # Absent /\ x[1] # 0
        B == CASE L # Absent -> L[1] [] Set(d) -> d[1] [] Set(m) -> m[1] [] OTHER -> 0
        cap == CASE Set(m) -> m[1] [] Set(d) -> d[1] [] OTHER -> B
    IN  /\ injected.limit.k = "number"
        /\ injected.limit.n <= B /\ injected.limit.n <= cap
        /\ injected.limit.n \in {B, cap}
        /\ ( /\ L = Absent \/ L[1] >= 0
             /\ d = Absent \/ d[1] >= 0
             /\ m = Absent \/ m[1] >= 0 ) => injected.limit.n >= 0

\* C3 witness: a requested limit above the policy's max was clamped to it.
C3_Witness ==
  /\ WroteLimit
  /\ RequestedLimit # Absent /\ PolicyInForce.max # Absent
  /\ PolicyInForce.max[1] > 0
  /\ RequestedLimit[1] > PolicyInForce.max[1]
  /\ injected.limit.n = PolicyInForce.max[1]

---------------------------------------------------------------------------
(* Claims about the key mapper (checked under SpecKey) *)

\* C8 as stated: fixKeyReturn(fixKeySend(r)) keeps every field of r that is not
\* internal-only, and its external identifier field equals the value r
\* supplied, falsy values included.
C8_Original_RoundTrip ==
  mapPc = "returned" =>
    \A i \in 1..Len(record.items) :
      LET r == record.items[i]
          b == readBack[i]
      IN  /\ \A f \in DOMAIN r \ InternalFields : f \in DOMAIN b /\ b[f] = r[f]
          /\ _id \in DOMAIN r => (_id \in DOMAIN b /\ b[_id] = r[_id])

\* C8 (amended): fixKeyReturn(fixKeySend(r)) keeps every field of r that is
\* neither internal-only nor the external identifier field, and its external
\* identifier field equals the value r supplied when that value is truthy; a
\* falsy or missing one is replaced by a generated id.
C8_RoundTrip ==
  mapPc = "returned" =>
    /\ Len(readBack) = Len(record.items)
    /\ \A i \in 1..Len(record.items) :
         LET r == record.items[i]
             b == readBack[i]
         IN  /\ \A f \in DOMAIN r \ (InternalFields \cup {_id}) :
                  f \in DOMAIN b /\ b[f] = r[f]
             /\ _id \in DOMAIN b
             /\ IF _id \in DOMAIN r /\ Truthy(r[_id])
                THEN b[_id] = r[_id]
                ELSE b[_id] \in Uuids

\* C8 witness: a record with a truthy custom identifier, a revision and a
\* payload field has made the round trip.
C8_Witness ==
  /\ mapPc = "returned"
  /\ _id = "id"
  /\ Len(record.items) = 1
  /\ {"id", "name", "_rev"} \subseteq DOMAIN record.items[1]
  /\ record.items[1]["id"] = "a"
  /\ readBack[1]["id"] = "a"
  /\ readBack[1]["name"] = record.items[1]["name"]

\* C9: for every record and identifier field name, fixKeySend's record has its
\* internal key set to the record's identifier (a generated one when that is
\* absent or falsy), and its body holds neither the external identifier field
\* nor the revision field.
C9_SendStripsIdentifier ==
  mapPc \in {"sent", "returned"} =>
    \A i \in 1..Len(record.items) :
      LET r == record.items[i]
          w == written[i]
      IN  /\ "_key" \in DOMAIN w
          /\ IF Truthy(Prop(r, _id)) THEN w["_key"] = r[_id] ELSE w["_key"] \in Uuids
          /\ (DOMAIN w \ {"_key"}) \cap {_id, "_rev"} = {}

===========================================================================
